---- MODULE Spec2Model ----
(***************************************************************************)
(* Two platform adapters of qtbase:                                        *)
(*                                                                         *)
(*  - LocalFileApi (wasm): the translation of Qt file-dialog filter        *)
(*    strings into the options object of the browser's file picker.        *)
(*    A QString is a sequence of one-character strings; an emscripten      *)
(*    object is a function from its keys to its values (DOMAIN = the keys  *)
(*    that were set); an emscripten array is a sequence; std::optional is  *)
(*    a record with the field has (and value when has).                    *)
(*                                                                         *)
(*  - QEglFSX11Integration: the main thread's platformInit /               *)
(*    platformDestroy / createNativeWindow and the EventReader thread      *)
(*    of each instance, sharing the process-wide counter `running`.        *)
(***************************************************************************)
EXTENDS Integers, Sequences, FiniteSets, TLC

VARIABLES
    pc,             \* filter translator: "idle" before the call, "done" after it
    op,             \* the function that was called
    input,          \* its argument(s)
    result,         \* what it returned
    running,        \* static QBasicAtomicInt running
    state,          \* per instance: "uninit", "inited", "destroyed"
    display,        \* per instance: "none", "open", "closed" (m_display / m_connection)
    m_platformWindow, \* per instance: createNativeWindow has set m_platformWindow
    m_atoms,        \* per instance: how many entries of m_atoms are written
    m_screenSize,   \* per instance: the cached m_screenSize is not empty
    queue,          \* per instance: events pending on the connection
    broken,         \* per instance: the connection is in an error state
    reader,         \* per instance: position of the EventReader thread
    mainPc,         \* position of the main (GUI) thread; the process ends with it
    closeEvents,    \* per instance: handleCloseEvent was called
    sent            \* number of events the X server has delivered so far

filterVars == <<pc, op, input, result>>
x11Vars == <<running, state, display, m_platformWindow, m_atoms, m_screenSize,
             queue, broken, reader, mainPc, closeEvents, sent>>
vars == <<pc, op, input, result, running, state, display, m_platformWindow,
          m_atoms, m_screenSize, queue, broken, reader, mainPc, closeEvents, sent>>

----------------------------------------------------------------------------
(* Bounds of the inputs *)

\* longest token handed to Extension::fromQt
MaxTokenLen == 4
\* longest extension-list text handed to Accept::fromQt
MaxTextLen == 5
\* longest filter spec handed to Type::fromQt
MaxSpecLen == 6
\* longest filter list handed to makeOpenFileOptions / makeSaveFileOptions
MaxListLen == 3
\* number of QEglFSX11Integration instances in the process
NumInstances == 2
\* number of events the X server delivers on its own
MaxEvents == 1

\* The characters strings are built from: the wildcard, the dot, an ordinary
\* character, a whitespace character and the two parentheses.
Chars == {"*", ".", "a", " ", "(", ")"}
\* The characters of an extension-list text: what can stand between parentheses.
TextChars == {"*", ".", "a", " "}
\* The characters of a filter spec.
SpecChars == {".", "a", " ", "(", ")"}

RECURSIVE StringsOfLen(_, _)
StringsOfLen(A, k) ==
    IF k = 0 THEN {<<>>}
    ELSE {Append(s, c) : s \in StringsOfLen(A, k - 1), c \in A}

StringsUpTo(A, n) == UNION {StringsOfLen(A, k) : k \in 0..n}

Tokens == StringsUpTo(Chars, MaxTokenLen)
Texts == StringsUpTo(TextChars, MaxTextLen)
FilterSpecs == StringsUpTo(SpecChars, MaxSpecLen)

\* The filter specs filter lists are built from: both shapes, with and without
\* description, several extensions, and every way of failing.
SampleSpecs ==
    { <<"*", ".", "a">>,                                \* *.a
      <<".", "a">>,                                     \* .a
      <<"a", " ", "(", "*", ".", "a", ")">>,            \* a (*.a)
      <<"(", ".", "a", " ", "*", ".", ".", ")">>,       \* (.a *..)
      <<"*">>,                                          \* *
      <<"a", " ", "(", "*", ".", "*", ")">>,            \* a (*.*)
      <<"a", "*", "a">>,                                \* a*a
      <<>>,                                             \* the empty string
      <<" ">>,                                          \* whitespace only
      <<"a", " ", "(", " ", ")">> }                     \* a ( )

RECURSIVE ListsOfLen(_)
ListsOfLen(k) ==
    IF k = 0 THEN {<<>>}
    ELSE {Append(l, s) : l \in ListsOfLen(k - 1), s \in SampleSpecs}

FilterLists == UNION {ListsOfLen(k) : k \in 0..MaxListLen}
SuggestedNames == {<<>>, <<"a">>}

----------------------------------------------------------------------------
(* std::optional *)

NullOpt == [has |-> FALSE]
Some(v) == [has |-> TRUE, value |-> v]

----------------------------------------------------------------------------
(* emscripten::val *)

\* emscripten::val::object()
EmptyObject == <<>>
\* emscripten::val::array()
EmptyArray == <<>>
\* val.set(key, v)
ObjSet(obj, key, v) ==
    [k \in (DOMAIN obj) \cup {key} |-> IF k = key THEN v ELSE obj[k]]
\* whether the object has the key
HasKey(obj, key) == key \in DOMAIN obj

----------------------------------------------------------------------------
(* Regular-expression pieces.  In every pattern of this file a quantified  *)
(* character class is followed by a character outside the class (or by the *)
(* end of the pattern), so the greedy run is the only one that can match.  *)

(* A character outside printable ASCII may also be written by its code     *)
(* point, "U+000B" for the vertical tab.                                   *)

\* \s of the regular expressions (no Unicode properties): U+0009..U+000D
\* and the space
WhiteSpace == {" ", "\t", "\n", "", "U+000B", "\f", "\r"}

\* QChar::isSpace, the test of trimmed(): U+0009..U+000D, the space, U+0085,
\* U+00A0 and the separators of the categories Zs, Zl and Zp
isSpace ==
    WhiteSpace \cup
    {"U+0085", "U+00A0", "U+1680", "U+2000", "U+2001", "U+2002", "U+2003",
     "U+2004", "U+2005", "U+2006", "U+2007", "U+2008", "U+2009", "U+200A",
     "U+2028", "U+2029", "U+202F", "U+205F", "U+3000"}

\* position after the longest run, from p, of characters of Class
RECURSIVE RunEndIn(_, _, _)
RunEndIn(s, p, Class) ==
    IF p <= Len(s) /\ s[p] \in Class THEN RunEndIn(s, p + 1, Class) ELSE p

\* position after the longest run, from p, of characters not in Excluded
RECURSIVE RunEndNot(_, _, _)
RunEndNot(s, p, Excluded) ==
    IF p <= Len(s) /\ s[p] \notin Excluded THEN RunEndNot(s, p + 1, Excluded) ELSE p

NoMatch == [hasMatch |-> FALSE]

\* QStringView::trimmed
RECURSIVE TrimLeft(_)
TrimLeft(s) ==
    IF s # <<>> /\ Head(s) \in isSpace THEN TrimLeft(Tail(s)) ELSE s

RECURSIVE TrimRight(_)
TrimRight(s) ==
    IF s # <<>> /\ s[Len(s)] \in isSpace
    THEN TrimRight(SubSeq(s, 1, Len(s) - 1)) ELSE s

trimmed(s) == TrimRight(TrimLeft(s))

----------------------------------------------------------------------------
(* Type::Accept::MimeType::Extension *)

\* anchoredPattern("[*]+|[*]+\\.[*]+")
qtAcceptAllRegex(s) ==
    LET k == RunEndIn(s, 1, {"*"})
    IN  /\ k > 1
        /\ \/ k = Len(s) + 1
           \/ /\ k <= Len(s)
              /\ s[k] = "."
              /\ RunEndIn(s, k + 1, {"*"}) > k + 1
              /\ RunEndIn(s, k + 1, {"*"}) = Len(s) + 1

\* the pattern with the whole match returned instead of the second capture
qtFilenameMatcherRegex_wholeMatch(s) ==
    LET d == IF s # <<>> /\ s[1] = "*" THEN 2 ELSE 1
    IN  IF /\ d <= Len(s)
           /\ s[d] = "."
           /\ RunEndNot(s, d + 1, {"*"}) > d + 1
           /\ RunEndNot(s, d + 1, {"*"}) = Len(s) + 1
        THEN [hasMatch |-> TRUE, captured2 |-> s]
        ELSE NoMatch

\* anchoredPattern("(\\*?)(\\.[^*]+)"): the match and its second capture
qtFilenameMatcherRegex(s) ==
    LET d == IF s # <<>> /\ s[1] = "*" THEN 2 ELSE 1
    IN  IF /\ d <= Len(s)
           /\ s[d] = "."
           /\ RunEndNot(s, d + 1, {"*"}) > d + 1
           /\ RunEndNot(s, d + 1, {"*"}) = Len(s) + 1
        THEN [hasMatch |-> TRUE, captured2 |-> SubSeq(s, d, Len(s))]
        ELSE NoMatch

Extension_fromQt(qtRepresentation) ==
    IF qtAcceptAllRegex(qtRepresentation) THEN NullOpt
    ELSE LET extensionMatch == qtFilenameMatcherRegex(qtRepresentation)
         IN  IF extensionMatch.hasMatch
             THEN Some(extensionMatch.captured2)
             ELSE NullOpt

----------------------------------------------------------------------------
(* Type::Accept *)

MimeKey == "application/octet-stream"

\* internalRegex "([^\\s]+)\\s*" matched from offset: the first capture and
\* the end of the whole match
internalRegex(s, offset) ==
    LET b == RunEndIn(s, offset, WhiteSpace)
        e == RunEndNot(s, b, WhiteSpace)
    IN  IF b > Len(s) THEN NoMatch
        ELSE [hasMatch |-> TRUE,
              captured1 |-> SubSeq(s, b, e - 1),
              capturedEnd |-> RunEndIn(s, e, WhiteSpace)]

\* m_storage.call("push", extension)
MimeType_addExtension(mimeType, extension) == Append(mimeType, extension)

\* m_storage.set("application/octet-stream", mimeType)
Accept_addMimeType(accept, mimeType) == ObjSet(accept, MimeKey, mimeType)

\* the loop with a token that fails skipped instead of failing the whole rule
RECURSIVE Accept_loop_skipBad(_, _, _)
Accept_loop_skipBad(s, offset, mimeType) ==
    LET internalMatch == internalRegex(s, offset)
    IN  IF ~internalMatch.hasMatch
        THEN Some(Accept_addMimeType(EmptyObject, mimeType))
        ELSE LET webExtension == Extension_fromQt(internalMatch.captured1)
             IN  Accept_loop_skipBad(s, internalMatch.capturedEnd,
                    IF webExtension.has
                    THEN MimeType_addExtension(mimeType, webExtension.value)
                    ELSE mimeType)

\* the while loop of Type::Accept::fromQt
RECURSIVE Accept_loop(_, _, _)
Accept_loop(s, offset, mimeType) ==
    LET internalMatch == internalRegex(s, offset)
    IN  IF ~internalMatch.hasMatch
        THEN Some(Accept_addMimeType(EmptyObject, mimeType))
        ELSE LET webExtension == Extension_fromQt(internalMatch.captured1)
             IN  IF ~webExtension.has THEN NullOpt
                 ELSE Accept_loop(s, internalMatch.capturedEnd,
                                  MimeType_addExtension(mimeType, webExtension.value))

Accept_fromQt(qtRepresentation) == Accept_loop(qtRepresentation, 1, EmptyArray)

----------------------------------------------------------------------------
(* Type *)

\* the constructor with the description stored as given
Type_Type_untrimmed(description, accept) ==
    LET withDescription == ObjSet(EmptyObject, "description", description)
    IN  IF accept.has
        THEN ObjSet(withDescription, "accept", accept.value)
        ELSE withDescription

\* Type::Type(description, accept)
Type_Type(description, accept) ==
    LET withDescription == ObjSet(EmptyObject, "description", trimmed(description))
    IN  IF accept.has
        THEN ObjSet(withDescription, "accept", accept.value)
        ELSE withDescription

\* first alternative at position p: ([^(]*)\(([^()]+)\)[^)]*
TypeRegexParens(s, p) ==
    LET q == RunEndNot(s, p, {"("})
        e == RunEndNot(s, q + 1, {"(", ")"})
    IN  IF q <= Len(s) /\ e > q + 1 /\ e <= Len(s) /\ s[e] = ")"
        THEN [hasMatch |-> TRUE,
              hasCaptured |-> {1, 2},
              captured |-> <<SubSeq(s, p, q - 1), SubSeq(s, q + 1, e - 1), <<>>>>,
              capturedEnd |-> RunEndNot(s, e + 1, {")"})]
        ELSE NoMatch

\* second alternative at position p: ([^()]+)
TypeRegexPlain(s, p) ==
    LET e == RunEndNot(s, p, {"(", ")"})
    IN  IF e > p
        THEN [hasMatch |-> TRUE,
              hasCaptured |-> {3},
              captured |-> <<<<>>, <<>>, SubSeq(s, p, e - 1)>>,
              capturedEnd |-> e]
        ELSE NoMatch

\* the alternation tried at position p: the first alternative that matches
TypeRegexAt(s, p) ==
    IF TypeRegexParens(s, p).hasMatch THEN TypeRegexParens(s, p)
    ELSE TypeRegexPlain(s, p)

\* regex.match(type): the pattern is not anchored, so the match is the one at
\* the first position where an alternative matches
RECURSIVE TypeRegexFrom(_, _)
TypeRegexFrom(s, p) ==
    IF TypeRegexAt(s, p).hasMatch THEN TypeRegexAt(s, p)
    ELSE IF p > Len(s) THEN NoMatch
    ELSE TypeRegexFrom(s, p + 1)

TypeRegex(s) == TypeRegexFrom(s, 1)

DescriptionIndex == 1
FilterListFromParensIndex == 2
PlainFilterListIndex == 3

\* the filter list Type::fromQt hands to Accept::fromQt
Type_filterList(match) ==
    match.captured[IF FilterListFromParensIndex \in match.hasCaptured
                   THEN FilterListFromParensIndex
                   ELSE PlainFilterListIndex]

\* the description Type::fromQt hands to the constructor (QStringView() is empty)
Type_description(match) ==
    IF DescriptionIndex \in match.hasCaptured
    THEN match.captured[DescriptionIndex]
    ELSE <<>>

Type_fromQt(type) ==
    LET match == TypeRegex(type)
    IN  IF ~match.hasMatch THEN NullOpt
        ELSE LET accept == Accept_fromQt(Type_filterList(match))
             IN  IF ~accept.has THEN NullOpt
                 ELSE Some(Type_Type(Type_description(match), accept))

----------------------------------------------------------------------------
(* The options objects *)

\* the loop left at the first filter that does not parse
RECURSIVE FilterList_loop_abort(_, _, _)
FilterList_loop_abort(filterList, i, types) ==
    IF i > Len(filterList) THEN types
    ELSE LET type == Type_fromQt(filterList[i])
         IN  IF type.has
             THEN FilterList_loop_abort(filterList, i + 1, Append(types, type.value))
             ELSE types

\* the for loop of qtFilterListToTypes
RECURSIVE FilterList_loop(_, _, _)
FilterList_loop(filterList, i, types) ==
    IF i > Len(filterList) THEN types
    ELSE LET type == Type_fromQt(filterList[i])
         IN  FilterList_loop(filterList, i + 1,
                             IF type.has THEN Append(types, type.value) ELSE types)

qtFilterListToTypes(filterList) ==
    LET types == FilterList_loop(filterList, 1, EmptyArray)
    IN  IF Len(types) = 0 THEN NullOpt ELSE Some(types)

\* excludeAcceptAllOption set whether or not there are types
makeOpenFileOptions_alwaysExclude(filterList, acceptMultiple) ==
    LET typeList == qtFilterListToTypes(filterList)
        options == IF typeList.has
                   THEN ObjSet(EmptyObject, "types", typeList.value)
                   ELSE EmptyObject
    IN  ObjSet(ObjSet(options, "excludeAcceptAllOption", TRUE),
               "multiple", acceptMultiple)

makeOpenFileOptions(filterList, acceptMultiple) ==
    LET typeList == qtFilterListToTypes(filterList)
        options == IF typeList.has
                   THEN ObjSet(ObjSet(EmptyObject, "types", typeList.value),
                               "excludeAcceptAllOption", TRUE)
                   ELSE EmptyObject
    IN  ObjSet(options, "multiple", acceptMultiple)

makeSaveFileOptions(filterList, suggestedName) ==
    LET typeList == qtFilterListToTypes(filterList)
        options == IF suggestedName # <<>>
                   THEN ObjSet(EmptyObject, "suggestedName", suggestedName)
                   ELSE EmptyObject
    IN  IF typeList.has
        THEN ObjSet(options, "types", typeList.value)
        ELSE options

----------------------------------------------------------------------------
(* QEglFSX11Integration and its EventReader thread *)

Instances == 1..NumInstances

\* the atom the server interns for a name is written as the name
atomNames == <<"_NET_WM_NAME", "UTF8_STRING", "WM_PROTOCOLS", "WM_DELETE_WINDOW",
               "_NET_WM_STATE", "_NET_WM_STATE_FULLSCREEN">>
XCB_ATOM_NONE == "XCB_ATOM_NONE"

\* an event of the connection; of a client message the reader looks at the
\* format, the type and the first data word
ClientMessage(type, data) ==
    [response_type |-> "XCB_CLIENT_MESSAGE", format |-> 32, type |-> type, data |-> data]
OtherEvent ==
    [response_type |-> "OTHER", format |-> 0, type |-> XCB_ATOM_NONE, data |-> XCB_ATOM_NONE]
NoEvent ==
    [response_type |-> "none", format |-> 0, type |-> XCB_ATOM_NONE, data |-> XCB_ATOM_NONE]

\* what the connection can deliver: the window manager's WM_DELETE_WINDOW,
\* client messages of any client with other contents, anything else
ServerEvents ==
    {ClientMessage("WM_PROTOCOLS", "WM_DELETE_WINDOW"),
     ClientMessage("WM_PROTOCOLS", XCB_ATOM_NONE),
     ClientMessage(XCB_ATOM_NONE, XCB_ATOM_NONE),
     OtherEvent}

\* sendConnectionEvent(a): the event is zeroed but for format 32 and type a
sendConnectionEvent(a) == ClientMessage(a, XCB_ATOM_NONE)
WakeUp == sendConnectionEvent(XCB_ATOM_NONE)

\* the environment variable EGLFS_X11_SIZE: unset, or a width and a height
EnvSizes == {"", "800x600"}

\* the entries of m_atoms, in the order of atomNames
WM_PROTOCOLS == 2
WM_DELETE_WINDOW == 3
N_ATOMS == 6

Idle == [call |-> "idle", inst |-> 0, at |-> "idle"]
InDestroy(i, at) == [call |-> "platformDestroy", inst |-> i, at |-> at]
\* qFatal("Could not open display"): abort()
Aborted(i) == [call |-> "platformInit", inst |-> i, at |-> "abort"]
InCreate(i) == [call |-> "createNativeWindow", inst |-> i, at |-> "atoms"]
\* the null reply of xcb_intern_atom_reply is dereferenced: SIGSEGV
Crashed(i) == [call |-> "createNativeWindow", inst |-> i, at |-> "SIGSEGV"]
\* an Xlib call on a failed connection (XCloseDisplay, XGetWindowAttributes):
\* Xlib's fatal IO error exits the process
Exited(call, i) == [call |-> call, inst |-> i, at |-> "exit"]
At(at) == [at |-> at, event |-> NoEvent]

\* the process has neither crashed nor exited
ProcessAlive == mainPc.at \notin {"abort", "SIGSEGV", "exit"}

\* a wait that returns at once
EventReaderWait_noWait(i) == TRUE

\* m_eventReader->wait(): returns once run() has returned
EventReaderWait(i) == reader[i].at = "finished"

\* platformInit: XOpenDisplay fails and qFatal aborts the process, or the
\* call runs to the start of the reader thread
platformInit(i) ==
    /\ mainPc = Idle
    /\ state[i] = "uninit"
    /\ \/ /\ mainPc' = Aborted(i)
          /\ UNCHANGED <<display, running, reader, state>>
       \/ /\ display' = [display EXCEPT ![i] = "open"]
          /\ running' = running + 1
          /\ reader' = [reader EXCEPT ![i] = At("check")]
          /\ state' = [state EXCEPT ![i] = "inited"]
          /\ mainPc' = mainPc
    /\ UNCHANGED <<filterVars, m_screenSize, m_platformWindow, m_atoms, queue, broken,
                   closeEvents, sent>>

\* screenSize: the cached size if there is one; else the size of the
\* environment variable; else XGetWindowAttributes, which does not return on
\* a connection in error
screenSize(i) ==
    /\ mainPc = Idle
    /\ state[i] = "inited"
    /\ \E env \in EnvSizes :
          \/ /\ m_screenSize[i] \/ env # "" \/ ~broken[i]
             /\ m_screenSize' = [m_screenSize EXCEPT ![i] = TRUE]
             /\ mainPc' = mainPc
          \/ /\ ~m_screenSize[i] /\ env = "" /\ broken[i]
             /\ mainPc' = Exited("screenSize", i)
             /\ m_screenSize' = m_screenSize
    /\ UNCHANGED <<filterVars, running, state, display, m_platformWindow, m_atoms, queue,
                   broken, reader, closeEvents, sent>>

\* createNativeWindow, up to the loop over the atoms: m_platformWindow is set
\* and the window is requested; nothing here waits for the server
createNativeWindow(i) ==
    /\ mainPc = Idle
    /\ state[i] = "inited"
    /\ ~m_platformWindow[i]
    /\ m_platformWindow' = [m_platformWindow EXCEPT ![i] = TRUE]
    /\ mainPc' = InCreate(i)
    /\ UNCHANGED <<filterVars, m_screenSize, running, state, display, m_atoms, queue, broken, reader,
                   closeEvents, sent>>

\* createNativeWindow, one turn of the loop: xcb_intern_atom_reply waits for
\* the server's reply and m_atoms[i] = reply->atom; the reply is null on a
\* connection in error.  After the last turn the properties are set, the
\* window is mapped and the call returns without waiting again.
InternAtom(i) ==
    /\ mainPc = InCreate(i)
    /\ \/ /\ broken[i]
          /\ mainPc' = Crashed(i)
          /\ m_atoms' = m_atoms
       \/ /\ ~broken[i]
          /\ m_atoms' = [m_atoms EXCEPT ![i] = @ + 1]
          /\ mainPc' = IF m_atoms[i] + 1 = N_ATOMS THEN Idle ELSE InCreate(i)
    /\ UNCHANGED <<filterVars, m_screenSize, running, state, display, m_platformWindow, queue, broken,
                   reader, closeEvents, sent>>

\* platformDestroy: running.deref()
DestroyDeref(i) ==
    /\ mainPc = Idle
    /\ state[i] = "inited"
    /\ running' = running - 1
    /\ mainPc' = InDestroy(i, "send")
    /\ UNCHANGED <<filterVars, m_screenSize, state, display, m_platformWindow, m_atoms, queue, broken,
                   reader, closeEvents, sent>>

\* platformDestroy: sendConnectionEvent(XCB_ATOM_NONE), to the instance's own
\* listener window on its own connection
DestroySend(i) ==
    /\ mainPc = InDestroy(i, "send")
    /\ queue' = [queue EXCEPT ![i] = IF broken[i] THEN @ ELSE Append(@, WakeUp)]
    /\ mainPc' = InDestroy(i, "wait")
    /\ UNCHANGED <<filterVars, m_screenSize, running, state, display, m_platformWindow, m_atoms, broken,
                   reader, closeEvents, sent>>

\* platformDestroy: m_eventReader->wait() returns
DestroyWait(i) ==
    /\ mainPc = InDestroy(i, "wait")
    /\ EventReaderWait(i)
    /\ mainPc' = InDestroy(i, "close")
    /\ UNCHANGED <<filterVars, m_screenSize, running, state, display, m_platformWindow, m_atoms, queue,
                   broken, reader, closeEvents, sent>>

\* platformDestroy: delete m_eventReader; XCloseDisplay; the members are reset.
\* On a connection in error XCloseDisplay does not return: the process exits.
DestroyClose(i) ==
    /\ mainPc = InDestroy(i, "close")
    /\ \/ /\ broken[i]
          /\ mainPc' = Exited("platformDestroy", i)
          /\ UNCHANGED <<display, state>>
       \/ /\ ~broken[i]
          /\ display' = [display EXCEPT ![i] = "closed"]
          /\ state' = [state EXCEPT ![i] = "destroyed"]
          /\ mainPc' = Idle
    /\ UNCHANGED <<filterVars, m_screenSize, running, m_platformWindow, m_atoms, queue, broken, reader,
                   closeEvents, sent>>

\* EventReader::run: the loop condition's running.loadRelaxed()
ReaderCheck(i) ==
    /\ ProcessAlive
    /\ reader[i].at = "check"
    /\ reader' = [reader EXCEPT ![i] = IF running # 0 THEN At("wait") ELSE At("finished")]
    /\ UNCHANGED <<filterVars, m_screenSize, running, state, display, m_platformWindow, m_atoms, queue,
                   broken, mainPc, closeEvents, sent>>

\* EventReader::run: xcb_wait_for_event tests the connection's error flag
\* first and returns null on a connection in error, whatever is queued;
\* otherwise it returns the next event, and blocks while there is none
ReaderWait(i) ==
    /\ ProcessAlive
    /\ reader[i].at = "wait"
    /\ \/ /\ broken[i]
          /\ reader' = [reader EXCEPT ![i] = At("finished")]
          /\ queue' = queue
       \/ /\ ~broken[i]
          /\ queue[i] # <<>>
          /\ reader' = [reader EXCEPT ![i] = [at |-> "handle", event |-> Head(queue[i])]]
          /\ queue' = [queue EXCEPT ![i] = Tail(@)]
    /\ UNCHANGED <<filterVars, m_screenSize, running, state, display, m_platformWindow, m_atoms, broken,
                   mainPc, closeEvents, sent>>

\* m_integration->atoms(): the entries written so far hold the server's
\* atoms; an entry createNativeWindow has not written yet holds 0.  (Were it
\* any other value, a client message could carry that value just as well.)
atoms(i) ==
    [k \in 0..(N_ATOMS - 1) |-> IF k < m_atoms[i] THEN atomNames[k + 1] ELSE XCB_ATOM_NONE]

\* the test of the client message against atoms()
IsDeleteWindow(i, event) ==
    /\ event.response_type = "XCB_CLIENT_MESSAGE"
    /\ event.format = 32
    /\ event.type = atoms(i)[WM_PROTOCOLS]
    /\ event.data = atoms(i)[WM_DELETE_WINDOW]

\* EventReader::run: the switch on the event; a client message that matches
\* atoms() reads platformWindow() and reports the close event of its window
\* (a platform window always has a window)
ReaderHandle(i) ==
    /\ ProcessAlive
    /\ reader[i].at = "handle"
    /\ closeEvents' = [closeEvents EXCEPT ![i] =
            @ \/ (IsDeleteWindow(i, reader[i].event) /\ m_platformWindow[i])]
    /\ reader' = [reader EXCEPT ![i] = At("check")]
    /\ UNCHANGED <<filterVars, m_screenSize, running, state, display, m_platformWindow, m_atoms, queue,
                   broken, mainPc, sent>>

\* the X server delivers an event on the connection
ServerEvent(i) ==
    /\ ProcessAlive
    /\ display[i] = "open"
    /\ ~broken[i]
    /\ sent < MaxEvents
    /\ \E e \in ServerEvents : queue' = [queue EXCEPT ![i] = Append(@, e)]
    /\ sent' = sent + 1
    /\ UNCHANGED <<filterVars, m_screenSize, running, state, display, m_platformWindow, m_atoms, broken,
                   reader, mainPc, closeEvents>>

\* the connection to the X server fails
ConnectionError(i) ==
    /\ ProcessAlive
    /\ display[i] = "open"
    /\ ~broken[i]
    /\ broken' = [broken EXCEPT ![i] = TRUE]
    /\ UNCHANGED <<filterVars, m_screenSize, running, state, display, m_platformWindow, m_atoms, queue,
                   reader, mainPc, closeEvents, sent>>

----------------------------------------------------------------------------
(* The filter translator's calls *)

CallExtensionFromQt ==
    /\ pc = "idle"
    /\ \E t \in Tokens :
          /\ input' = t
          /\ result' = Extension_fromQt(t)
    /\ op' = "Extension::fromQt"
    /\ pc' = "done"
    /\ UNCHANGED x11Vars

CallAcceptFromQt ==
    /\ pc = "idle"
    /\ \E t \in Texts :
          /\ input' = t
          /\ result' = Accept_fromQt(t)
    /\ op' = "Accept::fromQt"
    /\ pc' = "done"
    /\ UNCHANGED x11Vars

CallTypeFromQt ==
    /\ pc = "idle"
    /\ \E t \in FilterSpecs :
          /\ input' = t
          /\ result' = Type_fromQt(t)
    /\ op' = "Type::fromQt"
    /\ pc' = "done"
    /\ UNCHANGED x11Vars

CallMakeOpenFileOptions ==
    /\ pc = "idle"
    /\ \E l \in FilterLists, m \in BOOLEAN :
          /\ input' = [filterList |-> l, acceptMultiple |-> m]
          /\ result' = makeOpenFileOptions(l, m)
    /\ op' = "makeOpenFileOptions"
    /\ pc' = "done"
    /\ UNCHANGED x11Vars

CallMakeSaveFileOptions ==
    /\ pc = "idle"
    /\ \E l \in FilterLists, n \in SuggestedNames :
          /\ input' = [filterList |-> l, suggestedName |-> n]
          /\ result' = makeSaveFileOptions(l, n)
    /\ op' = "makeSaveFileOptions"
    /\ pc' = "done"
    /\ UNCHANGED x11Vars

----------------------------------------------------------------------------
(* Specifications *)

Init ==
    /\ pc = "idle"
    /\ op = "none"
    /\ input = <<>>
    /\ result = <<>>
    /\ running = 0
    /\ state = [i \in Instances |-> "uninit"]
    /\ display = [i \in Instances |-> "none"]
    /\ m_platformWindow = [i \in Instances |-> FALSE]
    /\ m_atoms = [i \in Instances |-> 0]
    /\ m_screenSize = [i \in Instances |-> FALSE]
    /\ queue = [i \in Instances |-> <<>>]
    /\ broken = [i \in Instances |-> FALSE]
    /\ reader = [i \in Instances |-> At("none")]
    /\ mainPc = Idle
    /\ closeEvents = [i \in Instances |-> FALSE]
    /\ sent = 0

\* the filter translator
Next ==
    \/ CallExtensionFromQt
    \/ CallAcceptFromQt
    \/ CallTypeFromQt
    \/ CallMakeOpenFileOptions
    \/ CallMakeSaveFileOptions

Spec == Init /\ [][Next]_vars

\* a step of the main thread inside platformDestroy
MainStep == \E i \in Instances : DestroySend(i) \/ DestroyWait(i) \/ DestroyClose(i)

\* a step of the EventReader thread of instance i
ReaderStep(i) == ReaderCheck(i) \/ ReaderWait(i) \/ ReaderHandle(i)

\* the X11 integration
NextX11 ==
    \/ \E i \in Instances : platformInit(i)
    \/ \E i \in Instances : screenSize(i)
    \/ \E i \in Instances : createNativeWindow(i)
    \/ \E i \in Instances : InternAtom(i)
    \/ \E i \in Instances : DestroyDeref(i)
    \/ MainStep
    \/ \E i \in Instances : ReaderStep(i)
    \/ \E i \in Instances : ServerEvent(i)
    \/ \E i \in Instances : ConnectionError(i)

SpecX11 == Init /\ [][NextX11]_vars

\* Threads that can run do run: the reader threads and the main thread inside
\* platformDestroy.  Nothing obliges the X server to send events, the
\* connection to fail, or the application to call into the integration.
FairSpecX11 ==
    /\ SpecX11
    /\ WF_vars(MainStep)
    /\ \A i \in Instances : WF_vars(ReaderStep(i))

----------------------------------------------------------------------------
(* What the claims are stated with *)

Parens == {"(", ")"}
Called(f) == pc = "done" /\ op = f
OptionsCalled == pc = "done" /\ op \in {"makeOpenFileOptions", "makeSaveFileOptions"}

\* the positions of the filter specs of l that parse
ParsedIndices(l) == {i \in 1..Len(l) : Type_fromQt(l[i]).has}

\* types holds the FileTypes of the specs of l that parse, in the order of l
IsOrderedSelection(types, l) ==
    /\ Len(types) = Cardinality(ParsedIndices(l))
    /\ \E f \in [1..Len(types) -> ParsedIndices(l)] :
          /\ \A a, b \in 1..Len(types) : a < b => f[a] < f[b]
          /\ \A k \in 1..Len(types) : types[k] = Type_fromQt(l[f[k]]).value

\* one or more `*`, or a run of `*`, a `.`, and a run of `*`
IsPureWildcard(t) ==
    \/ t # <<>> /\ \A i \in 1..Len(t) : t[i] = "*"
    \/ \E k \in 2..(Len(t) - 1) :
          /\ t[k] = "."
          /\ \A i \in (1..Len(t)) \ {k} : t[i] = "*"

\* the position of the `.` when t is an optional single `*`, a `.`, and one or
\* more characters other than `*`; 0 when t is not of that shape
DotOfExtensionShape(t) ==
    IF \E d \in {1, 2} :
          /\ d < Len(t)
          /\ d = 2 => t[1] = "*"
          /\ t[d] = "."
          /\ \A i \in (d + 1)..Len(t) : t[i] # "*"
    THEN (IF t[1] = "." THEN 1 ELSE 2)
    ELSE 0

\* the maximal runs of characters that are not whitespace, as <<first, last>>
TokenRuns(s) ==
    {r \in (1..Len(s)) \X (1..Len(s)) :
        /\ r[1] <= r[2]
        /\ \A i \in r[1]..r[2] : s[i] \notin WhiteSpace
        /\ r[1] = 1 \/ s[r[1] - 1] \in WhiteSpace
        /\ r[2] = Len(s) \/ s[r[2] + 1] \in WhiteSpace}

\* the k-th token of s
TokenAt(s, k) ==
    LET r == CHOOSE r \in TokenRuns(s) :
                 Cardinality({q \in TokenRuns(s) : q[1] < r[1]}) = k - 1
    IN  SubSeq(s, r[1], r[2])

TokenCount(s) == Cardinality(TokenRuns(s))

\* the parenthesized runs of s, as <<position of `(`, position of `)`>>: a
\* `(`, one or more characters that are no parenthesis, a `)`
ParenRuns(s) ==
    {r \in (1..Len(s)) \X (1..Len(s)) :
        /\ r[1] + 1 < r[2]
        /\ s[r[1]] = "("
        /\ s[r[2]] = ")"
        /\ \A i \in (r[1] + 1)..(r[2] - 1) : s[i] \notin Parens}

HasNoParens(s) == \A i \in 1..Len(s) : s[i] \notin Parens

\* s is of the shape GROUP1 (GROUP2): GROUP1 holds no `(`
IsGroup1Group2(s) == \E r \in ParenRuns(s) : \A i \in 1..(r[1] - 1) : s[i] # "("
Group1(s) ==
    LET r == CHOOSE r \in ParenRuns(s) : \A i \in 1..(r[1] - 1) : s[i] # "("
    IN  SubSeq(s, 1, r[1] - 1)

----------------------------------------------------------------------------
(* The claims *)

\* C1: the `types` of the options object are exactly the FileTypes of the
\* filter specs that parse, in input order and with duplicates kept; a spec
\* that does not parse contributes nothing; `types` is omitted exactly when
\* no spec parses.
C1_TypesAreTheParsedSpecsInOrder ==
    OptionsCalled =>
        /\ HasKey(result, "types") <=> ParsedIndices(input.filterList) # {}
        /\ HasKey(result, "types") =>
              IsOrderedSelection(result["types"], input.filterList)

\* C1 witness: a list with a spec that does not parse between two equal specs
\* that do, which gives both of them and nothing else
C1_Witness ==
    /\ OptionsCalled
    /\ Len(input.filterList) = 3
    /\ ParsedIndices(input.filterList) = {1, 3}
    /\ input.filterList[1] = input.filterList[3]
    /\ HasKey(result, "types")
    /\ Len(result["types"]) = 2
    /\ result["types"][1] = result["types"][2]
    /\ result["types"][1]["accept"][MimeKey] # <<>>

\* C2 as stated: for both entry points the options hold excludeAcceptAllOption
\* = true if and only if they hold types.
C2_ExcludeIffTypesBothEntryPoints ==
    OptionsCalled =>
        ((HasKey(result, "excludeAcceptAllOption")
              /\ result["excludeAcceptAllOption"] = TRUE)
          <=> HasKey(result, "types"))

\* C2 amended: makeOpenFileOptions holds excludeAcceptAllOption = true if and
\* only if it holds types, and it holds types if and only if some filter
\* parses; makeSaveFileOptions holds types on the same condition and never
\* holds excludeAcceptAllOption.
C2_ExcludeIffTypesOpenOnly ==
    /\ Called("makeOpenFileOptions") =>
          /\ HasKey(result, "types") <=> qtFilterListToTypes(input.filterList).has
          /\ HasKey(result, "excludeAcceptAllOption") <=> HasKey(result, "types")
          /\ HasKey(result, "excludeAcceptAllOption") =>
                result["excludeAcceptAllOption"] = TRUE
    /\ Called("makeSaveFileOptions") =>
          /\ HasKey(result, "types") <=> qtFilterListToTypes(input.filterList).has
          /\ ~HasKey(result, "excludeAcceptAllOption")

\* C2 witness: save options that hold types
C2_Witness ==
    /\ Called("makeSaveFileOptions")
    /\ HasKey(result, "types")
    /\ ~HasKey(result, "excludeAcceptAllOption")

\* C3: Extension::fromQt fails on a pure wildcard; otherwise it succeeds
\* exactly on an optional single leading `*`, a `.` and one or more characters
\* other than `*`, and the extension is the token from the `.` on: it begins
\* with `.`, has at least two characters and holds no `*`.
C3_ExtensionFromQt ==
    Called("Extension::fromQt") =>
        LET d == DotOfExtensionShape(input)
        IN  IF IsPureWildcard(input) \/ d = 0
            THEN result = NullOpt
            ELSE /\ result = Some(SubSeq(input, d, Len(input)))
                 /\ result.value[1] = "."
                 /\ Len(result.value) >= 2
                 /\ \A i \in 1..Len(result.value) : result.value[i] # "*"

\* C3 witness: a token with the leading `*`, which is dropped
C3_Witness ==
    /\ Called("Extension::fromQt")
    /\ Len(input) = 4
    /\ input[1] = "*"
    /\ result.has
    /\ Len(result.value) = 3

\* C4: Accept::fromQt is all or nothing: it fails if any whitespace-separated
\* token fails Extension::fromQt; otherwise it gives one MimeGroup under
\* application/octet-stream with the extensions of all tokens in token order.
C4_AcceptAllOrNothing ==
    Called("Accept::fromQt") =>
        LET n == TokenCount(input)
        IN  IF \E k \in 1..n : ~Extension_fromQt(TokenAt(input, k)).has
            THEN result = NullOpt
            ELSE /\ result.has
                 /\ DOMAIN result.value = {MimeKey}
                 /\ Len(result.value[MimeKey]) = n
                 /\ \A k \in 1..n :
                       result.value[MimeKey][k]
                           = Extension_fromQt(TokenAt(input, k)).value

\* C4 witness: a text with a token that parses followed by one that does not
C4_Witness ==
    /\ Called("Accept::fromQt")
    /\ TokenCount(input) = 2
    /\ Extension_fromQt(TokenAt(input, 1)).has
    /\ ~Extension_fromQt(TokenAt(input, 2)).has
    /\ result = NullOpt

\* C5 as stated: a FileType parsed from a spec without parentheses has no
\* description field at all; one parsed from GROUP1 (GROUP2) has GROUP1
\* trimmed as its description.
C5_PlainShapeHasNoDescription ==
    (Called("Type::fromQt") /\ result.has) =>
        /\ HasNoParens(input) => ~HasKey(result.value, "description")
        /\ IsGroup1Group2(input) =>
              /\ HasKey(result.value, "description")
              /\ result.value["description"] = trimmed(Group1(input))

\* C5 amended: a FileType parsed from a spec without parentheses has the
\* description field, holding the empty string; one parsed from
\* GROUP1 (GROUP2) has GROUP1 trimmed as its description.
C5_PlainShapeHasEmptyDescription ==
    (Called("Type::fromQt") /\ result.has) =>
        /\ HasNoParens(input) =>
              /\ HasKey(result.value, "description")
              /\ result.value["description"] = <<>>
        /\ IsGroup1Group2(input) =>
              /\ HasKey(result.value, "description")
              /\ result.value["description"] = trimmed(Group1(input))

\* C5 witness: GROUP1 (GROUP2) with whitespace around a description
C5_Witness ==
    /\ Called("Type::fromQt")
    /\ result.has
    /\ IsGroup1Group2(input)
    /\ Group1(input) # trimmed(Group1(input))
    /\ result.value["description"] # <<>>

\* C6: a spec that holds no parenthesized run parses only if it holds no
\* parenthesis at all, and then the whole spec is its extension list.
C6_StrayParenthesisFails ==
    (Called("Type::fromQt") /\ ParenRuns(input) = {} /\ result.has) =>
        /\ HasNoParens(input)
        /\ Accept_fromQt(input).has
        /\ result.value["accept"] = Accept_fromQt(input).value

\* C7: a FileType parsed from a spec that holds a parenthesized run has the
\* extension list of the text inside such a run, never of the text outside.
C7_ExtensionListFromParentheses ==
    (Called("Type::fromQt") /\ ParenRuns(input) # {} /\ result.has) =>
        \E r \in ParenRuns(input) :
            LET accept == Accept_fromQt(SubSeq(input, r[1] + 1, r[2] - 1))
            IN  /\ accept.has
                /\ result.value["accept"] = accept.value

\* C8: no FileType of the `types` of an options object has an empty
\* extension list.
C8_NoEmptyExtensionList ==
    (OptionsCalled /\ HasKey(result, "types")) =>
        \A k \in 1..Len(result["types"]) :
            result["types"][k]["accept"][MimeKey] # <<>>

\* C9: once platformDestroy is called on an instance, its reader thread leaves
\* its loop and m_eventReader->wait() returns, so that platformDestroy comes
\* to its end (it returns, or the process exits inside XCloseDisplay on a
\* failed connection), whatever the other instances do.
C9_PlatformDestroyReturns ==
    \A i \in Instances :
        (mainPc.call = "platformDestroy" /\ mainPc.inst = i)
            ~> /\ reader[i].at = "finished"
               /\ state[i] = "destroyed" \/ mainPc = Exited("platformDestroy", i)

\* C10: the display of an instance is closed only after its reader thread has
\* left its loop: a reader that waits for or handles an event, or is about to
\* test `running`, has its connection open.
C10_ClosedOnlyAfterReaderExit ==
    \A i \in Instances :
        /\ display[i] = "closed" => reader[i].at = "finished"
        /\ reader[i].at \in {"check", "wait", "handle"} => display[i] = "open"

\* C10 witness: a reader that handled an event, left its loop, and whose
\* display was closed after that
C10_Witness ==
    \E i \in Instances :
        /\ display[i] = "closed"
        /\ reader[i].at = "finished"
        /\ closeEvents[i]

====
